---------------------------- MODULE Spec2Model ----------------------------
(***************************************************************************)
(* Open Wegram Bot: the request router, the webhook install / uninstall    *)
(* handlers and the webhook delivery handler (the message relay).          *)
(*                                                                         *)
(* A JavaScript string is a sequence of one-character strings, so that     *)
(* toString, parseInt, split and the regular-expression tests are computed *)
(* character by character.  An optional value (undefined / null / a        *)
(* missing JSON field) is the empty tuple None; a present value v is the   *)
(* one-element tuple Some(v).                                              *)
(*                                                                         *)
(* A handler is an async function: it runs to its next await, and other    *)
(* handlers run while it is suspended.  The handlers in flight are the     *)
(* slots of Slots; each has its own request, position, calls and response, *)
(* as the program keeps no state between requests.  The only state shared  *)
(* is the remote platform's: the messages that copyMessage put into the    *)
(* owner's chat.                                                           *)
(***************************************************************************)
EXTENDS Integers, Sequences, FiniteSets, TLC

None == <<>>
Some(v) == <<v>>

(***************************************************************************)
(* Characters and string literals of the source.  A character that has no  *)
(* escape here is written by its code point, "U+00A0".                     *)
(***************************************************************************)
Digits == <<"0", "1", "2", "3", "4", "5", "6", "7", "8", "9">>
DigitChars == {Digits[i] : i \in 1..10}
UpperChars == {"A", "B", "C", "D", "E", "F", "G", "H", "I", "J", "K", "L", "M",
               "N", "O", "P", "Q", "R", "S", "T", "U", "V", "W", "X", "Y", "Z"}
LowerChars == {"a", "b", "c", "d", "e", "f", "g", "h", "i", "j", "k", "l", "m",
               "n", "o", "p", "q", "r", "s", "t", "u", "v", "w", "x", "y", "z"}
HexLower == Digits \o <<"a", "b", "c", "d", "e", "f">>
HexUpper == Digits \o <<"A", "B", "C", "D", "E", "F">>
HexChars == {HexLower[i] : i \in 1..16} \cup {HexUpper[i] : i \in 1..16}
\* WhiteSpace and LineTerminator of ECMAScript: what StringToNumber and
\* parseInt skip at the start of a string
WhiteSpaceChars ==
    {" ", "\t", "\n", "\r", "\f", "U+000B", "U+00A0", "U+FEFF", "U+2028", "U+2029",
     "U+1680", "U+2000", "U+2001", "U+2002", "U+2003", "U+2004", "U+2005", "U+2006",
     "U+2007", "U+2008", "U+2009", "U+200A", "U+202F", "U+205F", "U+3000"}
\* the characters that are not themselves inside a regular expression, and
\* the separator of path segments
RegExpSyntaxChars ==
    {"\\", "^", "$", ".", "|", "?", "*", "+", "(", ")", "[", "]", "{", "}", "/"}

\* 'tg://user?id='
TgUserPrefix == <<"t", "g", ":", "/", "/", "u", "s", "e", "r", "?", "i", "d", "=">>
\* the path literals of the three route patterns
InstallLit == <<"i", "n", "s", "t", "a", "l", "l">>
UninstallLit == <<"u", "n", "i", "n", "s", "t", "a", "l", "l">>
WebhookLit == <<"w", "e", "b", "h", "o", "o", "k">>
\* "/start"
StartCommand == <<"/", "s", "t", "a", "r", "t">>

(***************************************************************************)
(* Number.prototype.toString (radix 10), for the integers chat ids are.    *)
(***************************************************************************)
RECURSIVE NatToString(_)
NatToString(n) ==
    IF n < 10 THEN <<Digits[n + 1]>>
    ELSE NatToString(n \div 10) \o <<Digits[(n % 10) + 1]>>

IntToString(n) == IF n < 0 THEN <<"-">> \o NatToString(0 - n) ELSE NatToString(n)

(***************************************************************************)
(* parseInt(string) with no radix: leading white space is skipped, one     *)
(* sign is read, a following 0x or 0X selects radix 16, then the longest   *)
(* prefix of digits of the radix is read; no digit gives NaN.              *)
(* A JavaScript number is [nan, n].  The value is exact up to 2^53, where  *)
(* a double starts to round; the integers computed here stay below 2^31.   *)
(***************************************************************************)
NaN == [nan |-> TRUE, n |-> 0]
Num(k) == [nan |-> FALSE, n |-> k]

DigitVal(c) == CHOOSE d \in 0..15 : c \in {HexLower[d + 1], HexUpper[d + 1]}

RECURSIVE TrimStart(_)
TrimStart(s) ==
    IF s /= <<>> /\ Head(s) \in WhiteSpaceChars THEN TrimStart(Tail(s)) ELSE s

RECURSIVE DigitPrefix(_, _)
DigitPrefix(s, class) ==
    IF s = <<>> \/ Head(s) \notin class THEN <<>>
    ELSE <<Head(s)>> \o DigitPrefix(Tail(s), class)

RECURSIVE DigitsValue(_, _)
DigitsValue(d, radix) ==
    IF d = <<>> THEN 0
    ELSE radix * DigitsValue(SubSeq(d, 1, Len(d) - 1), radix) + DigitVal(d[Len(d)])

ParseInt(s) ==
    LET t == TrimStart(s)
        signed == t /= <<>> /\ Head(t) \in {"-", "+"}
        u == IF signed THEN Tail(t) ELSE t
        hex == Len(u) >= 2 /\ u[1] = "0" /\ u[2] \in {"x", "X"}
        radix == IF hex THEN 16 ELSE 10
        d == IF hex THEN DigitPrefix(SubSeq(u, 3, Len(u)), HexChars)
             ELSE DigitPrefix(u, DigitChars)
    IN  IF d = <<>> THEN NaN
        ELSE IF signed /\ Head(t) = "-" THEN Num(0 - DigitsValue(d, radix))
        ELSE Num(DigitsValue(d, radix))

\* parseInt of a value that may be undefined: ToString(undefined) has no digit
ParseIntOpt(v) == IF v = None THEN NaN ELSE ParseInt(v[1])

\* JSON.stringify of a number: NaN is written as null
JsonNumber(x) == IF x.nan THEN None ELSE Some(x.n)

(***************************************************************************)
(* String.prototype.split(separator)[1]: the text between the first and    *)
(* the second occurrence of the separator; undefined when the separator    *)
(* does not occur.                                                         *)
(***************************************************************************)
RECURSIVE IndexOf(_, _, _)
IndexOf(s, sep, from) ==
    IF from + Len(sep) - 1 > Len(s) THEN 0
    ELSE IF SubSeq(s, from, from + Len(sep) - 1) = sep THEN from
    ELSE IndexOf(s, sep, from + 1)

SplitSecond(s, sep) ==
    LET i == IndexOf(s, sep, 1)
    IN  IF i = 0 THEN None
        ELSE LET rest == SubSeq(s, i + Len(sep), Len(s))
                 j == IndexOf(rest, sep, 1)
             IN  Some(IF j = 0 THEN rest ELSE SubSeq(rest, 1, j - 1))

(***************************************************************************)
(* validateSecretToken                                                     *)
(***************************************************************************)
HasChar(token, class) == \E i \in 1..Len(token) : token[i] \in class

validateSecretTokenOffByOne(token) ==
    /\ Len(token) >= 15
    /\ HasChar(token, UpperChars)
    /\ HasChar(token, LowerChars)
    /\ HasChar(token, DigitChars)

validateSecretToken(token) ==
    /\ Len(token) > 15
    /\ HasChar(token, UpperChars)
    /\ HasChar(token, LowerChars)
    /\ HasChar(token, DigitChars)

(***************************************************************************)
(* Inputs.  A chat has a fixed profile; the owner's uid is a path segment. *)
(***************************************************************************)
MaxForwarded == 1

EmptySecret == <<>>
GoodSecret == <<"A", "b", "c", "d", "e", "f", "g", "h", "i", "j", "k", "l", "m", "n", "o", "1">>
GoodSecretLower == <<"a", "b", "c", "d", "e", "f", "g", "h", "i", "j", "k", "l", "m", "n", "o", "1">>
FifteenSecret == <<"A", "b", "c", "d", "e", "f", "g", "h", "i", "j", "k", "l", "m", "n", "1">>
Secrets == {EmptySecret, GoodSecret, FifteenSecret}

PublicLit == <<"p", "u", "b", "l", "i", "c">>
Configs == {[prefix |-> PublicLit, secretToken |-> s] : s \in Secrets}

ChatIds == {7, 26, 0 - 13}
OwnerUids == {<<"7">>, <<"0", "7">>}
BotTokens == {<<"T", "1">>}
MessageIds == {11}

Chat(id) ==
    CASE id = 7 -> [id |-> id, username |-> Some(<<"a", "l">>), first_name |-> Some(<<"A">>),
                    last_name |-> None]
      [] id = 26 -> [id |-> id, username |-> None, first_name |-> Some(<<"B">>),
                     last_name |-> Some(<<"C">>)]
      [] OTHER -> [id |-> id, username |-> None, first_name |-> None,
                   last_name |-> Some(<<"G">>)]

Texts == {None, Some(StartCommand), Some(StartCommand \o <<"x">>)}

NoLabel == [glyph |-> "none", name |-> <<>>, uid |-> <<>>]
Button(c, u) == [text |-> NoLabel, callback_data |-> c, url |-> u]
TgLink == TgUserPrefix \o <<"7">>
WebLink == <<"h", "t", "t", "p", ":", "/", "/", "x">>
\* first buttons of messages the bot did not forward: callback_data absent,
\* empty, a decimal numeral, a numeral with a tail, a hexadecimal numeral
\* behind a tab; url absent, a user link, another link
Buttons ==
    {Button(None, None), Button(None, Some(TgLink)), Button(None, Some(WebLink)),
     Button(Some(<<>>), Some(TgLink)),
     Button(Some(<<"2", "6">>), None), Button(Some(<<"2", "6">>), Some(TgLink)),
     Button(Some(<<"1", "2", "a", "b">>), None),
     Button(Some(<<"\t", "0", "x", "1", "A">>), None)}
\* reply_markup values a replied-to message may carry, besides forwarded ones
ForeignMarkups ==
    {None, Some([inline_keyboard |-> <<>>]), Some([inline_keyboard |-> <<<<>>>>])}
        \cup {Some([inline_keyboard |-> <<<<b>>>>]) : b \in Buttons}

Headers == {None, Some(EmptySecret), Some(GoodSecret), Some(GoodSecretLower)}

\* how a fetch settles: it throws, or it gives a Response with its ok flag
\* (status 200..299); the body has not been read then
FetchOutcomes ==
    {[threw |-> TRUE, ok |-> FALSE, result |-> "none"]}
        \cup {[threw |-> FALSE, ok |-> o, result |-> "unread"] : o \in BOOLEAN}

\* what response.json() gives: {ok:true}, {ok:false, description}, or it throws
BodyResults == {"ok_true", "ok_false", "not_json"}

\* how a copyMessage fetch settles: the body of its Response is never read;
\* the platform answers 200 with {ok:true} when it made the copy, and an
\* error status with {ok:false} when it did not
CopyOutcomes ==
    {[threw |-> TRUE, ok |-> FALSE, result |-> "none"],
     [threw |-> FALSE, ok |-> TRUE, result |-> "ok_true"],
     [threw |-> FALSE, ok |-> FALSE, result |-> "ok_false"]}

\* the handlers that can be in flight together
Slots == {1, 2}

VARIABLES config, pc, req, calls, replies, resp, ownerChat

vars == <<config, pc, req, calls, replies, resp, ownerChat>>

(***************************************************************************)
(* Responses                                                               *)
(***************************************************************************)
TextResponse(text, status) == [kind |-> "text", status |-> status, text |-> text]

jsonResponse(success, template, detail, status) ==
    [kind |-> "json", status |-> status, success |-> success,
     message |-> [template |-> template, detail |-> detail]]

\* an error that leaves the handler: the returned promise rejects
Uncaught(error) == [kind |-> "uncaught", error |-> error]

(***************************************************************************)
(* postToTelegramApi: one POST to /bot<token>/<method> with a JSON body    *)
(***************************************************************************)
postToTelegramApi(token, method, body) == [token |-> token, method |-> method, body |-> body]

\* what a handler does at a step: it ends with a response, awaits a fetch it
\* has just issued, or awaits the body of a request or of a Response
Return(r) == [pc |-> "done", call |-> None, resp |-> Some(r)]
Await(at, call) == [pc |-> at, call |-> Some(call), resp |-> None]
AwaitJson(at) == [pc |-> at, call |-> None, resp |-> None]

(***************************************************************************)
(* handleInstall / handleUninstall                                         *)
(***************************************************************************)
handleInstall(request, ownerUid, botToken, prefix, secretToken) ==
    IF ~validateSecretToken(secretToken)
    THEN Return(jsonResponse(FALSE, "secret_policy", "", 400))
    ELSE Await("install",
               postToTelegramApi(botToken, "setWebhook",
                   [url |-> [base |-> request.base,
                             path |-> <<prefix, WebhookLit, ownerUid, botToken>>],
                    allowed_updates |-> <<"message">>,
                    secret_token |-> secretToken]))

handleUninstall(botToken, secretToken) ==
    IF ~validateSecretToken(secretToken)
    THEN Return(jsonResponse(FALSE, "secret_policy", "", 400))
    ELSE Await("uninstall", postToTelegramApi(botToken, "deleteWebhook", [empty |-> TRUE]))

\* either handler once its fetch has settled: a rejection is caught, a
\* Response has its body read next
WebhookAdminFetched(outcome, at, errorTemplate) ==
    IF outcome.threw THEN Return(jsonResponse(FALSE, errorTemplate, "fetch error", 500))
    ELSE AwaitJson(at)

\* either handler once response.json() has settled: result.ok, and the catch
WebhookAdminResult(result, okTemplate, failTemplate, errorTemplate) ==
    IF result = "not_json" THEN jsonResponse(FALSE, errorTemplate, "json error", 500)
    ELSE IF result = "ok_true" THEN jsonResponse(TRUE, okTemplate, "", 200)
    ELSE jsonResponse(FALSE, failTemplate, "description", 400)

(***************************************************************************)
(* handleWebhook                                                           *)
(***************************************************************************)
\* a JavaScript truthiness test of an optional string
Truthy(v) == v /= None /\ v[1] /= <<>>

\* secretToken !== request.headers.get(...): get gives null for a missing header
SecretMismatchUnlessEmpty(secretToken, header) ==
    header = None \/ (header[1] /= <<>> /\ header[1] /= secretToken)

SecretMismatch(secretToken, header) == header = None \/ header[1] /= secretToken

\* reply && message.chat.id.toString() === ownerUid
IsOwnerReplyAnyChat(message, ownerUid) == message.reply_to_message /= None

IsOwnerReply(message, ownerUid) ==
    message.reply_to_message /= None /\ IntToString(message.chat.id) = ownerUid

\* "/start" === message.text
IsStartCommandNoSlash(message) == message.text = Some(Tail(StartCommand))

IsStartCommand(message) == message.text = Some(StartCommand)

\* rm && rm.inline_keyboard && rm.inline_keyboard.length > 0
HasInlineKeyboard(rm) == rm /= None /\ Len(rm[1].inline_keyboard) > 0

\* the sender uid read from inline_keyboard[0][0]: callback_data, else the url
\* split at 'tg://user?id='; reading a field of undefined throws a TypeError
ExtractSenderUidUrlFirst(rm) ==
    LET row == rm[1].inline_keyboard[1]
    IN  IF row = <<>> THEN [threw |-> TRUE, value |-> None]
        ELSE IF row[1].url /= None
             THEN [threw |-> FALSE, value |-> SplitSecond(row[1].url[1], TgUserPrefix)]
        ELSE [threw |-> FALSE, value |-> row[1].callback_data]

ExtractSenderUid(rm) ==
    LET row == rm[1].inline_keyboard[1]
    IN  IF row = <<>> THEN [threw |-> TRUE, value |-> None]
        ELSE IF Truthy(row[1].callback_data)
             THEN [threw |-> FALSE, value |-> row[1].callback_data]
        ELSE IF row[1].url = None THEN [threw |-> TRUE, value |-> None]
        ELSE [threw |-> FALSE, value |-> SplitSecond(row[1].url[1], TgUserPrefix)]

\* sender.username ? `@${username}` : [first_name, last_name].filter(Boolean).join(' ')
SenderName(sender) ==
    IF Truthy(sender.username) THEN <<"@">> \o sender.username[1]
    ELSE IF Truthy(sender.first_name) /\ Truthy(sender.last_name)
         THEN sender.first_name[1] \o <<" ">> \o sender.last_name[1]
    ELSE IF Truthy(sender.first_name) THEN sender.first_name[1]
    ELSE IF Truthy(sender.last_name) THEN sender.last_name[1]
    ELSE <<>>

\* the inline keyboard copyMessage(withUrl) builds
InlineKeyboardWrongUid(message, withUrl) ==
    LET senderUid == IntToString(message.message_id)
        ik == [text |-> [glyph |-> "lock_pen", name |-> SenderName(message.chat),
                         uid |-> senderUid],
               callback_data |-> Some(senderUid), url |-> None]
    IN  IF withUrl
        THEN <<<<[ik EXCEPT !.text.glyph = "unlocked",
                            !.url = Some(TgUserPrefix \o senderUid)]>>>>
        ELSE <<<<ik>>>>

InlineKeyboard(message, withUrl) ==
    LET senderUid == IntToString(message.chat.id)
        ik == [text |-> [glyph |-> "lock_pen", name |-> SenderName(message.chat),
                         uid |-> senderUid],
               callback_data |-> Some(senderUid), url |-> None]
    IN  IF withUrl
        THEN <<<<[ik EXCEPT !.text.glyph = "unlocked",
                            !.url = Some(TgUserPrefix \o senderUid)]>>>>
        ELSE <<<<ik>>>>

copyMessage(message, ownerUid, botToken, withUrl) ==
    postToTelegramApi(botToken, "copyMessage",
        [chat_id |-> JsonNumber(ParseInt(ownerUid)),
         from_chat_id |-> message.chat.id,
         message_id |-> message.message_id,
         reply_markup |-> Some([inline_keyboard |-> InlineKeyboard(message, withUrl)])])

\* the copy of the owner's message back to the sender: no reply_markup
RelayToSender(message, botToken, senderUid) ==
    postToTelegramApi(botToken, "copyMessage",
        [chat_id |-> JsonNumber(ParseIntOpt(senderUid)),
         from_chat_id |-> message.chat.id,
         message_id |-> message.message_id,
         reply_markup |-> None])

InternalError == TextResponse("internal_error", 500)
Success == TextResponse("success", 200)

\* the body of the try block, up to its first await
WebhookTry(message, ownerUid, botToken) ==
    IF IsOwnerReply(message, ownerUid)
    THEN LET rm == message.reply_to_message[1].reply_markup
         IN  IF HasInlineKeyboard(rm)
             THEN LET uid == ExtractSenderUid(rm)
                  IN  IF uid.threw THEN Return(InternalError)
                      ELSE Await("relay", RelayToSender(message, botToken, uid.value))
             ELSE Return(Success)
    ELSE IF IsStartCommand(message) THEN Return(Success)
    ELSE Await("primary", copyMessage(message, ownerUid, botToken, TRUE))

\* the secret check, up to await request.json()
handleWebhook(request, ownerUid, botToken, secretToken) ==
    IF SecretMismatch(secretToken, request.header)
    THEN Return(TextResponse("unauthorized", 401))
    ELSE AwaitJson("body")

\* once request.json() has settled: a rejection and update.message of null
\* are outside the try block; then the try block up to its first await
WebhookUpdate(body, ownerUid, botToken) ==
    IF ~body.json THEN Return(Uncaught("SyntaxError"))
    ELSE IF body.update = None THEN Return(Uncaught("TypeError"))
    ELSE IF body.update[1].message = None THEN Return(Success)
    ELSE WebhookTry(body.update[1].message[1], ownerUid, botToken)

\* if (!response.ok): the Response's ok flag of the first copy
NeedsFallbackInverted(outcome) == outcome.ok

NeedsFallback(outcome) == ~outcome.ok

\* await copyMessage(); return new Response(...): the second copy's Response
\* is not looked at
FallbackResultChecked(outcome) ==
    IF outcome.threw \/ ~outcome.ok THEN InternalError ELSE Success

FallbackResult(outcome) == IF outcome.threw THEN InternalError ELSE Success

(***************************************************************************)
(* handleRequest: the three anchored patterns.  The prefix is interpolated *)
(* into the regular expressions; for a prefix without a character of       *)
(* RegExpSyntaxChars a pattern matches exactly the paths whose segments    *)
(* are the prefix, the literal, and one non-empty segment per group.       *)
(* handleRequest is defined for those prefixes only.                       *)
(***************************************************************************)
LiteralPrefix(prefix) == \A i \in 1..Len(prefix) : prefix[i] \notin RegExpSyntaxChars

handleRequest(request, cfg) ==
    LET path == request.path
        seg(i) == path[i] /= <<>>
    IN  CASE LiteralPrefix(cfg.prefix) ->
        IF Len(path) = 4 /\ path[1] = cfg.prefix /\ path[2] = InstallLit /\ seg(3) /\ seg(4)
        THEN handleInstall(request, path[3], path[4], cfg.prefix, cfg.secretToken)
        ELSE IF Len(path) = 3 /\ path[1] = cfg.prefix /\ path[2] = UninstallLit /\ seg(3)
        THEN handleUninstall(path[3], cfg.secretToken)
        ELSE IF Len(path) = 4 /\ path[1] = cfg.prefix /\ path[2] = WebhookLit
                /\ seg(3) /\ seg(4)
        THEN handleWebhook(request, path[3], path[4], cfg.secretToken)
        ELSE Return(TextResponse("not_found", 404))

(***************************************************************************)
(* The requests the platform and its users can send.                       *)
(***************************************************************************)
MalformedBody == [json |-> FALSE, update |-> None]
NullBody == [json |-> TRUE, update |-> None]
UpdateBody(message) == [json |-> TRUE, update |-> Some([message |-> message])]

\* a replied-to message carries a foreign markup or one the bot attached itself
ReplyTargets(store) ==
    {None} \cup {Some([reply_markup |-> m]) :
                    m \in ForeignMarkups \cup {e.markup : e \in store}}

Messages(store) ==
    {[chat |-> Chat(id), message_id |-> mid, text |-> t, reply_to_message |-> r] :
        id \in ChatIds, mid \in MessageIds, t \in Texts, r \in ReplyTargets(store)}

Bodies(store) ==
    {MalformedBody, NullBody, UpdateBody(None)}
        \cup {UpdateBody(Some(m)) : m \in Messages(store)}

Prefixes == {PublicLit, <<"x">>}

Request(path, header, body) ==
    [path |-> path, base |-> "https://host", header |-> header, body |-> body]

AdminRequests ==
    {Request(p, None, MalformedBody) :
        p \in {<<x, InstallLit, u, t>> : x \in Prefixes, u \in OwnerUids, t \in BotTokens}
              \cup {<<x, UninstallLit, t>> : x \in Prefixes, t \in BotTokens}
              \cup {<<PublicLit>>, <<PublicLit, InstallLit, <<"7">>>>}}

WebhookRequests(store) ==
    {Request(<<PublicLit, WebhookLit, u, t>>, h, b) :
        u \in OwnerUids, t \in BotTokens, h \in Headers, b \in Bodies(store)}

\* the requests that arrive while another handler is in flight: a delivery
\* of a new message of a third party, and a request for a path of no route
OverlapMessage ==
    [chat |-> Chat(0 - 13), message_id |-> 11, text |-> None, reply_to_message |-> None]

OverlapAdminRequests == {Request(<<PublicLit>>, None, MalformedBody)}

OverlapWebhookRequests(cfg) ==
    {Request(<<PublicLit, WebhookLit, <<"7">>, <<"T", "1">>>>, Some(cfg.secretToken),
             UpdateBody(Some(OverlapMessage)))}

(***************************************************************************)
(* The remote platform: a copy that it accepts appears in the target chat  *)
(* with the reply_markup it was sent with.  Only copies into an owner's    *)
(* chat are kept, at most MaxForwarded of them.                            *)
(***************************************************************************)
Deliver(store, call, outcome) ==
    IF /\ ~outcome.threw
       /\ outcome.result = "ok_true"
       /\ call.method = "copyMessage"
       /\ call.body.reply_markup /= None
       /\ call.body.chat_id /= None
       /\ Cardinality(store) < MaxForwarded
    THEN store \cup {[owner |-> call.body.chat_id[1], sender |-> call.body.from_chat_id,
                      markup |-> call.body.reply_markup]}
    ELSE store

(***************************************************************************)
(* State machine                                                           *)
(***************************************************************************)
NoRequest == Request(<<>>, None, MalformedBody)

Init ==
    /\ config \in Configs
    /\ pc = [s \in Slots |-> "idle"]
    /\ req = [s \in Slots |-> NoRequest]
    /\ calls = [s \in Slots |-> <<>>]
    /\ replies = [s \in Slots |-> <<>>]
    /\ resp = [s \in Slots |-> None]
    /\ ownerChat = {}

\* the handler of slot s goes on with step: to its response, or to its next await
Continue(s, step) ==
    /\ pc' = [pc EXCEPT ![s] = step.pc]
    /\ calls' = [calls EXCEPT ![s] = @ \o step.call]
    /\ resp' = [resp EXCEPT ![s] = step.resp]

\* a request arrives: handleRequest runs up to the handler's first await
Enter(s, request) ==
    /\ req' = [req EXCEPT ![s] = request]
    /\ Continue(s, handleRequest(request, config))
    /\ UNCHANGED <<config, replies, ownerChat>>

ReceiveAdmin ==
    \E s \in Slots :
        /\ pc[s] = "idle"
        /\ \E request \in (IF s = 1 THEN AdminRequests ELSE OverlapAdminRequests) :
              Enter(s, request)

ReceiveWebhook ==
    \E s \in Slots :
        /\ pc[s] = "idle"
        /\ \E request \in (IF s = 1 THEN WebhookRequests(ownerChat)
                           ELSE OverlapWebhookRequests(config)) :
              Enter(s, request)

\* the message of the request of slot s, and the handler's arguments
Message(s) == req[s].body.update[1].message[1]
OwnerUid(s) == req[s].path[3]
BotToken(s) == req[s].path[4]

\* const update = await request.json() settles
BodyRead ==
    \E s \in Slots :
        /\ pc[s] = "body"
        /\ Continue(s, WebhookUpdate(req[s].body, OwnerUid(s), BotToken(s)))
        /\ UNCHANGED <<config, req, replies, ownerChat>>

\* the pending fetch of slot s settles with outcome; the handler goes on with step
Settle(s, outcome, step) ==
    /\ replies' = [replies EXCEPT ![s] = Append(@, outcome)]
    /\ ownerChat' = Deliver(ownerChat, calls[s][Len(calls[s])], outcome)
    /\ Continue(s, step)
    /\ UNCHANGED <<config, req>>

\* await response.json() of slot s settles with result; the handler responds
ReadJson(s, result, response) ==
    /\ replies' = [replies EXCEPT ![s][Len(replies[s])].result = result]
    /\ Continue(s, Return(response))
    /\ UNCHANGED <<config, req, ownerChat>>

\* await postToTelegramApi(botToken, 'setWebhook', ...) settles
InstallSettles ==
    \E s \in Slots :
        /\ pc[s] = "install"
        /\ \E outcome \in FetchOutcomes :
              Settle(s, outcome, WebhookAdminFetched(outcome, "install_json", "install_error"))

\* await response.json() settles
InstallBodyRead ==
    \E s \in Slots :
        /\ pc[s] = "install_json"
        /\ \E result \in BodyResults :
              ReadJson(s, result, WebhookAdminResult(result, "install_ok", "install_failed",
                                                     "install_error"))

UninstallSettles ==
    \E s \in Slots :
        /\ pc[s] = "uninstall"
        /\ \E outcome \in FetchOutcomes :
              Settle(s, outcome,
                     WebhookAdminFetched(outcome, "uninstall_json", "uninstall_error"))

UninstallBodyRead ==
    \E s \in Slots :
        /\ pc[s] = "uninstall_json"
        /\ \E result \in BodyResults :
              ReadJson(s, result, WebhookAdminResult(result, "uninstall_ok",
                                                     "uninstall_failed", "uninstall_error"))

\* await postToTelegramApi(...) in the reply branch, then the success response
RelaySettles ==
    \E s \in Slots :
        /\ pc[s] = "relay"
        /\ \E outcome \in CopyOutcomes :
              Settle(s, outcome, Return(IF outcome.threw THEN InternalError ELSE Success))

\* const response = await copyMessage(true); if (!response.ok) await copyMessage()
PrimarySettles ==
    \E s \in Slots :
        /\ pc[s] = "primary"
        /\ \E outcome \in CopyOutcomes :
              Settle(s, outcome,
                     IF outcome.threw THEN Return(InternalError)
                     ELSE IF NeedsFallback(outcome)
                          THEN Await("fallback",
                                     copyMessage(Message(s), OwnerUid(s), BotToken(s), FALSE))
                     ELSE Return(Success))

FallbackSettles ==
    \E s \in Slots :
        /\ pc[s] = "fallback"
        /\ \E outcome \in CopyOutcomes : Settle(s, outcome, Return(FallbackResult(outcome)))

\* the response leaves; nothing of the request is kept
Respond ==
    \E s \in Slots :
        /\ pc[s] = "done"
        /\ pc' = [pc EXCEPT ![s] = "idle"]
        /\ req' = [req EXCEPT ![s] = NoRequest]
        /\ calls' = [calls EXCEPT ![s] = <<>>]
        /\ replies' = [replies EXCEPT ![s] = <<>>]
        /\ resp' = [resp EXCEPT ![s] = None]
        /\ UNCHANGED <<config, ownerChat>>

Next ==
    \/ ReceiveAdmin
    \/ ReceiveWebhook
    \/ BodyRead
    \/ InstallSettles
    \/ InstallBodyRead
    \/ UninstallSettles
    \/ UninstallBodyRead
    \/ RelaySettles
    \/ PrimarySettles
    \/ FallbackSettles
    \/ Respond

Spec == Init /\ [][Next]_vars

(***************************************************************************)
(* Vocabulary of the properties, for the handler of slot s                 *)
(***************************************************************************)
WebhookDelivery(s) == Len(req[s].path) = 4 /\ req[s].path[2] = WebhookLit
HeaderEqualsSecret(s) == req[s].header /= None /\ req[s].header[1] = config.secretToken
Authenticated(s) == WebhookDelivery(s) /\ HeaderEqualsSecret(s)
HasMessage(s) ==
    /\ req[s].body.json
    /\ req[s].body.update /= None
    /\ req[s].body.update[1].message /= None
Delivery(s) == Authenticated(s) /\ HasMessage(s)
\* the update has been read: the handler is past await request.json()
Handled(s) == Delivery(s) /\ pc[s] /= "body"
Done(s) == pc[s] = "done"
FromOwner(s) == IntToString(Message(s).chat.id) = OwnerUid(s)
IsReply(s) == Message(s).reply_to_message /= None
TextIsStart(s) == Message(s).text = Some(StartCommand)
FreshInbound(s) == Delivery(s) /\ ~(IsReply(s) /\ FromOwner(s)) /\ ~TextIsStart(s)
Status(s, n) == resp[s] /= None /\ resp[s][1].kind /= "uncaught" /\ resp[s][1].status = n
Threw(s) == \E i \in 1..Len(replies[s]) : replies[s][i].threw

RepliedMarkup(s) == Message(s).reply_to_message[1].reply_markup
OwnerReplyWithButton(s) ==
    /\ Delivery(s) /\ IsReply(s) /\ FromOwner(s)
    /\ RepliedMarkup(s) /= None
    /\ Len(RepliedMarkup(s)[1].inline_keyboard) > 0
    /\ Len(RepliedMarkup(s)[1].inline_keyboard[1]) > 0
FirstButton(s) == RepliedMarkup(s)[1].inline_keyboard[1][1]
ButtonOf(call) == call.body.reply_markup[1].inline_keyboard[1][1]
\* another handler is suspended at an await
OtherSuspended(s) == \E o \in Slots \ {s} : pc[o] \notin {"idle", "done"}

\* C1: a webhook delivery whose secret header differs from the configured
\* secret (absent, empty, other case) is answered 401 with no remote call;
\* with an equal header the handler goes on and never answers 401.
C1_DeliveryAuthentication ==
    \A s \in Slots :
        WebhookDelivery(s) =>
            /\ ~HeaderEqualsSecret(s) =>
                  /\ Done(s)
                  /\ resp[s] = Some(TextResponse("unauthorized", 401))
                  /\ calls[s] = <<>>
            /\ HeaderEqualsSecret(s) => ~Status(s, 401)

C1_Witness ==
    \E s \in Slots :
        /\ Done(s) /\ WebhookDelivery(s) /\ HasMessage(s)
        /\ config.secretToken = GoodSecret
        /\ req[s].header = Some(GoodSecretLower)
        /\ Status(s, 401) /\ calls[s] = <<>>

\* C2: when the owner replies to a message the bot forwarded for sender S,
\* with the marker as it was attached, exactly one copyMessage is issued,
\* to chat S, with no reply_markup.
C2_SenderRoundTrip ==
    \A s \in Slots : \A e \in ownerChat :
        ( /\ Handled(s) /\ IsReply(s) /\ FromOwner(s)
          /\ Message(s).chat.id = e.owner
          /\ RepliedMarkup(s) = e.markup )
        => /\ Len(calls[s]) = 1
           /\ calls[s][1].method = "copyMessage"
           /\ calls[s][1].body.chat_id = Some(e.sender)
           /\ calls[s][1].body.reply_markup = None

C2_Witness ==
    \E s \in Slots : \E e \in ownerChat :
        /\ Done(s) /\ Delivery(s) /\ IsReply(s) /\ FromOwner(s)
        /\ Message(s).chat.id = e.owner
        /\ RepliedMarkup(s) = e.markup
        /\ e.markup[1].inline_keyboard[1][1].url = None
        /\ e.sender < 0
        /\ calls[s][1].body.chat_id = Some(e.sender)
        /\ Status(s, 200)

\* C3: in the reply-from-owner branch the target is read from the first
\* button: a non-empty callback_data naming chat k wins, also beside a url;
\* with callback_data absent or empty, a url 'tg://user?id=' + k gives k.
C3_TwoStrategyDecode ==
    \A s \in Slots :
        Handled(s) /\ OwnerReplyWithButton(s) =>
            \A k \in ChatIds :
                ( \/ FirstButton(s).callback_data = Some(IntToString(k))
                  \/ /\ FirstButton(s).callback_data \in {None, Some(<<>>)}
                     /\ FirstButton(s).url = Some(TgUserPrefix \o IntToString(k)) )
                => /\ Len(calls[s]) = 1
                   /\ calls[s][1].method = "copyMessage"
                   /\ calls[s][1].body.chat_id = Some(k)

C3_Witness ==
    \E s \in Slots :
        /\ Done(s) /\ OwnerReplyWithButton(s)
        /\ FirstButton(s).callback_data = Some(<<>>)
        /\ FirstButton(s).url = Some(TgLink)
        /\ Len(calls[s]) = 1 /\ calls[s][1].body.chat_id = Some(7)
        /\ Message(s).chat.id = 7

\* C4: an owner reply to a message whose first button has neither
\* callback_data nor url issues no relay and is answered 200; a relay is
\* issued only if a marker value was recovered.
C4_NoMarkerNoRelay ==
    \A s \in Slots :
        Done(s) /\ OwnerReplyWithButton(s) =>
            /\ FirstButton(s).callback_data = None /\ FirstButton(s).url = None
                  => calls[s] = <<>> /\ Status(s, 200)
            /\ calls[s] /= <<>> =>
                  \/ Truthy(FirstButton(s).callback_data)
                  \/ /\ FirstButton(s).url /= None
                     /\ SplitSecond(FirstButton(s).url[1], TgUserPrefix) /= None

\* C5 (as stated): every authenticated delivery whose text is exactly /start
\* is answered 200 with no remote call, whoever sent it, reply or not.
\* Stated here for calls that do not throw and for owner replies to a message
\* whose first button carries callback_data, so that what is refuted is the
\* suppression itself and not the handling of a missing marker.
C5_StartAlwaysSuppressed ==
    \A s \in Slots :
        ( /\ Done(s) /\ Delivery(s) /\ TextIsStart(s) /\ ~Threw(s)
          /\ IsReply(s) /\ FromOwner(s)
                => OwnerReplyWithButton(s) /\ Truthy(FirstButton(s).callback_data) )
        => Status(s, 200) /\ calls[s] = <<>>

\* C5 (amended): an authenticated delivery whose text is exactly /start and
\* which is not a reply sent from the owner's chat is answered 200 with no
\* remote call, whoever sent it.
C5_StartSuppressedUnlessOwnerReply ==
    \A s \in Slots :
        Handled(s) /\ TextIsStart(s) /\ ~(IsReply(s) /\ FromOwner(s))
            => Done(s) /\ resp[s] = Some(Success) /\ calls[s] = <<>>

C5_Witness ==
    \E s \in Slots :
        /\ Done(s) /\ Delivery(s) /\ TextIsStart(s)
        /\ IsReply(s) /\ ~FromOwner(s)
        /\ RepliedMarkup(s) /= None
        /\ Len(RepliedMarkup(s)[1].inline_keyboard) > 0
        /\ Len(RepliedMarkup(s)[1].inline_keyboard[1]) > 0
        /\ FirstButton(s).callback_data = Some(<<"2", "6">>)
        /\ resp[s] = Some(Success) /\ calls[s] = <<>>

\* C6: a fresh inbound message is first copied to the owner with a marker
\* holding callback_data and url; when that Response is not ok, exactly one
\* more copy follows, after the first has settled, without url and with the
\* callback-only label, and nothing follows it; when the first Response is
\* ok no second copy is made.
C6_PrimaryThenFallback ==
    \A s \in Slots :
        Handled(s) /\ FreshInbound(s) =>
            /\ Len(calls[s]) \in {1, 2}
            /\ Len(calls[s]) <= Len(replies[s]) + 1
            /\ calls[s][1].method = "copyMessage"
            /\ ButtonOf(calls[s][1]).callback_data = Some(IntToString(Message(s).chat.id))
            /\ ButtonOf(calls[s][1]).url
                  = Some(TgUserPrefix \o IntToString(Message(s).chat.id))
            /\ ButtonOf(calls[s][1]).text.glyph = "unlocked"
            /\ Len(replies[s]) >= 1 =>
                  IF ~replies[s][1].threw /\ ~replies[s][1].ok
                  THEN /\ Len(calls[s]) = 2
                       /\ calls[s][2].method = "copyMessage"
                       /\ calls[s][2].body.chat_id = calls[s][1].body.chat_id
                       /\ ButtonOf(calls[s][2]).callback_data
                             = Some(IntToString(Message(s).chat.id))
                       /\ ButtonOf(calls[s][2]).url = None
                       /\ ButtonOf(calls[s][2]).text.glyph = "lock_pen"
                  ELSE Len(calls[s]) = 1 /\ Done(s)
            /\ Len(replies[s]) = 2 => Done(s)

C6_Witness ==
    \E s \in Slots :
        /\ Done(s) /\ FreshInbound(s)
        /\ Len(calls[s]) = 2 /\ Len(replies[s]) = 2
        /\ ~replies[s][1].threw /\ ~replies[s][1].ok /\ replies[s][1].result = "ok_false"
        /\ ~replies[s][2].threw /\ ~replies[s][2].ok
        /\ ButtonOf(calls[s][2]).url = None
        /\ OtherSuspended(s)

\* C7: no error raised after authentication leaves the handler: a body that
\* is not an Update is answered 500 like every other unexpected error.
C7_NoErrorEscapes ==
    \A s \in Slots :
        Done(s) /\ Authenticated(s) =>
            /\ resp[s][1].kind /= "uncaught"
            /\ ~req[s].body.json \/ req[s].body.update = None => Status(s, 500)

\* C8: install and uninstall answer 400 without a remote call when the
\* secret fails the policy; otherwise they issue exactly one call and answer
\* 200 on ok:true, 400 with the description on ok:false, 500 when the call
\* fails; never another status, never a second call.
SecretPolicy(token) ==
    /\ Len(token) > 15
    /\ \E i \in 1..Len(token) : token[i] \in UpperChars
    /\ \E i \in 1..Len(token) : token[i] \in LowerChars
    /\ \E i \in 1..Len(token) : token[i] \in DigitChars

InstallRequest(s) ==
    Len(req[s].path) = 4 /\ req[s].path[1] = config.prefix /\ req[s].path[2] = InstallLit
UninstallRequest(s) ==
    Len(req[s].path) = 3 /\ req[s].path[1] = config.prefix /\ req[s].path[2] = UninstallLit

C8_InstallUninstallOutcome ==
    \A s \in Slots :
        InstallRequest(s) \/ UninstallRequest(s) =>
            IF ~SecretPolicy(config.secretToken)
            THEN /\ Done(s) /\ calls[s] = <<>>
                 /\ resp[s][1].kind = "json" /\ resp[s][1].status = 400
                 /\ ~resp[s][1].success
            ELSE /\ Len(calls[s]) = 1
                 /\ calls[s][1].method
                       = (IF InstallRequest(s) THEN "setWebhook" ELSE "deleteWebhook")
                 /\ Done(s) =>
                      /\ Len(replies[s]) = 1
                      /\ resp[s][1].kind = "json"
                      /\ resp[s][1].status \in {200, 400, 500}
                      /\ resp[s][1].success <=> resp[s][1].status = 200
                      /\ replies[s][1].threw => resp[s][1].status = 500
                      /\ ~replies[s][1].threw /\ replies[s][1].result = "ok_true"
                            => resp[s][1].status = 200
                      /\ ~replies[s][1].threw /\ replies[s][1].result = "ok_false"
                            => /\ resp[s][1].status = 400
                               /\ resp[s][1].message.detail = "description"

C8_Witness ==
    \E s \in Slots :
        /\ Done(s) /\ InstallRequest(s)
        /\ config.secretToken = GoodSecret
        /\ Len(calls[s]) = 1 /\ Len(replies[s]) = 1
        /\ ~replies[s][1].threw /\ replies[s][1].result = "ok_false"
        /\ resp[s][1].status = 400

\* C9: a fresh inbound message is answered 200 whatever the two copies'
\* Responses report, also when both are not ok; it is answered 500 only
\* when a call threw.
C9_FreshInboundAccepted ==
    \A s \in Slots :
        Done(s) /\ FreshInbound(s) =>
            resp[s] = Some(IF Threw(s) THEN InternalError ELSE Success)

C9_Witness ==
    \E s \in Slots :
        /\ Done(s) /\ FreshInbound(s)
        /\ Len(replies[s]) = 2
        /\ ~replies[s][1].threw /\ ~replies[s][1].ok /\ replies[s][1].result = "ok_false"
        /\ ~replies[s][2].threw /\ ~replies[s][2].ok /\ replies[s][2].result = "ok_false"
        /\ Status(s, 200)

\* C10: a delivery from a chat whose id, as a string, is not ownerUid only
\* ever causes copyMessage calls to the owner, whatever marker the message
\* it replies to carries; a copy without reply_markup, to a chat taken from
\* a marker, is issued only for a reply from the owner's chat.
C10_ThirdPartyIsolation ==
    \A s \in Slots :
        /\ Delivery(s) /\ ~FromOwner(s) =>
              \A i \in 1..Len(calls[s]) :
                  /\ calls[s][i].method = "copyMessage"
                  /\ calls[s][i].body.chat_id = JsonNumber(ParseInt(OwnerUid(s)))
                  /\ calls[s][i].body.reply_markup /= None
        /\ \A i \in 1..Len(calls[s]) :
              calls[s][i].method = "copyMessage" /\ calls[s][i].body.reply_markup = None
                  => Delivery(s) /\ IsReply(s) /\ FromOwner(s)

C10_Witness ==
    \E s \in Slots :
        /\ Done(s) /\ Delivery(s) /\ ~FromOwner(s) /\ IsReply(s)
        /\ Message(s).chat.id = 0 - 13
        /\ OwnerUid(s) = <<"7">>
        /\ RepliedMarkup(s) /= None
        /\ Len(RepliedMarkup(s)[1].inline_keyboard) > 0
        /\ Len(RepliedMarkup(s)[1].inline_keyboard[1]) > 0
        /\ FirstButton(s).callback_data = Some(<<"2", "6">>)
        /\ Len(calls[s]) = 1 /\ calls[s][1].body.chat_id = Some(7)

=============================================================================
